---- MODULE Spec2Model ----
(***************************************************************************)
(* Model of src/main.py: a command-line tool that walks the paginated      *)
(* playlistItems endpoint of a video API, joins every page with the videos *)
(* statistics endpoint and dumps the result as JSON.                       *)
(*                                                                         *)
(* The program is sequential.  Its position is kept in three program       *)
(* counters, one per level of the call chain                               *)
(*     main / fetch_* / get_videos_list   (pc)                             *)
(*       -> api_get_request               (gpc)                            *)
(*         -> stubborn_request            (tpc)                            *)
(* and the remote servers are the environment: every answer (a transient   *)
(* failure, or a response with some status code and some payload) is       *)
(* chosen nondeterministically from small sets.                            *)
(*                                                                         *)
(* Python values: a str is a sequence of tokens (<<"v","1","2">>), None is *)
(* the one-token sequence NoneVal, a dict with optional keys is a function *)
(* whose DOMAIN is the set of keys present.                                *)
(***************************************************************************)
EXTENDS Integers, Sequences, FiniteSets, TLC

\* ------------------------------------------------------------------ bounds

\* pages the playlistItems server serves at most in one run
MaxPages ==
    2

\* value at which the retry counter of stubborn_request saturates
MaxRetries ==
    1

\* calls of api_get_request an importing caller makes at most (GateSpec)
MaxCalls ==
    3

\* how far below 1 and above default_max_results the page sizes handed to
\* correct_args go (ClampSpec)
MaxExcess ==
    30

\* --------------------------------------------------------- program constants

\* main.py:20
default_max_results ==
    50

\* main.py:23, the default of sec_bet_req
sec_bet_req ==
    2

\* the status code api_get_request accepts (main.py:49)
HTTP_OK ==
    200

\* the status codes validate_args tells apart (main.py:225, 227)
HTTP_NOT_FOUND ==
    404

HTTP_BAD_REQUEST ==
    400

\* ------------------------------------------------------------------ values

NoneVal ==
    <<"None">>

Digit ==
    <<"0", "1", "2", "3", "4", "5">>

\* the status codes a server may answer with
StatusCodes ==
    {HTTP_OK, 204, HTTP_BAD_REQUEST, HTTP_NOT_FOUND}

\* requests.exceptions caught by stubborn_request, with the line it prints
TransientFaults ==
    {"HTTPError", "ConnectionError", "Timeout", "RequestException"}

RetryMessage(exc) ==
    CASE exc = "HTTPError" -> "Http error... Retry"
      [] exc = "ConnectionError" -> "Connection error... Retry"
      [] exc = "Timeout" -> "Timeout error... Retry"
      [] OTHER -> "Request error... Retry"

\* what stubborn_request holds before the first answer (response = None)
NoResponse ==
    [kind |-> "None"]

\* the value api_get_request returns on the closed branch (False)
FalseVal ==
    [kind |-> "False"]

Response(url, status_code, body) ==
    [kind |-> "Response", url |-> url, status_code |-> status_code, body |-> body]

NoUrl ==
    [endpoint |-> "none"]

VARIABLES
    pc,                 \* position in main and the functions it calls
    args,               \* the argparse namespace: url, key, out, maxr
    api_request_allow,  \* the module-level gate flag
    gpc, g_url, exit_if_not, g_ret,   \* the running api_get_request call
    tpc, t_url, response, retries,    \* the running stubborn_request call
    slept,              \* seconds of the last time.sleep of stubborn_request
    stdout,             \* last line printed
    stderr,             \* last message written to stderr
    exit_status,        \* -1 while running, then the process exit status
    termination,        \* how the process ended
    requests_log,       \* URLs handed to requests.get, one per stubborn_request
    gate_closures,      \* times line 50 has run
    locals,             \* local variables of main and its callees
    videos_list,        \* get_videos_list's accumulator
    pages_log,          \* history: pages parsed so far with their statistics
    out_file,           \* the output file: whether written, its name and content
    lib_calls           \* api_get_request calls made by an importing caller

vars ==
    <<pc, args, api_request_allow, gpc, g_url, exit_if_not, g_ret, tpc, t_url,
      response, retries, slept, stdout, stderr, exit_status, termination, requests_log,
      gate_closures, locals, videos_list, pages_log, out_file, lib_calls>>

gateVars ==
    <<gpc, g_url, exit_if_not, g_ret>>

netVars ==
    <<tpc, t_url, response, retries, slept, requests_log>>

progVars ==
    <<args, locals, videos_list, pages_log, out_file, lib_calls>>

endVars ==
    <<stderr, exit_status, termination>>

\* ------------------------------------------------- stubborn_request (23-41)

\* line 26: the loop runs while no response has been obtained; requests.get
\* returns a response of any status code without raising
LoopAgainOnStatus(resp) ==
    resp = NoResponse \/ resp.status_code >= HTTP_BAD_REQUEST

LoopAgain(resp) ==
    resp = NoResponse

\* the URL of the next requests.get after a caught exception (line 28: the
\* parameter url is never reassigned)
RetryUrl(url) ==
    url

\* the call stubborn_request(url): response = None, then the first requests.get
StubbornCall(url) ==
    /\ tpc' = "attempt"
    /\ t_url' = url
    /\ response' = NoResponse
    /\ retries' = 0
    /\ slept' = 0
    /\ requests_log' = Append(requests_log, url)

\* line 41: stubborn_request hands its response to the caller; the rest of its
\* frame is gone
StubbornReturn ==
    /\ tpc' = "idle"
    /\ retries' = 0
    /\ slept' = 0
    /\ UNCHANGED <<t_url, response, requests_log>>

\* lines 29-40: requests.get raised; print, sleep, go round the loop
TransportFault(exc) ==
    /\ tpc = "attempt"
    /\ stdout' = RetryMessage(exc)
    /\ slept' = sec_bet_req
    /\ retries' = IF retries < MaxRetries THEN retries + 1 ELSE retries
    /\ t_url' = RetryUrl(t_url)
    /\ UNCHANGED <<tpc, response, requests_log>>
    /\ UNCHANGED <<pc, api_request_allow, gate_closures, gateVars, progVars, endVars>>

\* line 28: requests.get returned a response; line 26 ends the loop; line 41
TransportDeliver(status_code, body) ==
    /\ tpc = "attempt"
    /\ response' = Response(t_url, status_code, body)
    /\ tpc' = IF LoopAgain(response') THEN "attempt" ELSE "got"
    /\ UNCHANGED <<t_url, retries, slept, requests_log, stdout>>
    /\ UNCHANGED <<pc, api_request_allow, gate_closures, gateVars, progVars, endVars>>

\* ------------------------------------------------- api_get_request (44-58)

\* line 47
GateOpenAlways(allow) ==
    TRUE

GateOpen(allow) ==
    allow

\* line 49: the response counts as a success
StatusSuccess2xx(status_code) ==
    status_code \in 200..299

StatusSuccess(status_code) ==
    status_code = HTTP_OK

\* lines 49-50: the flag after a response has been looked at
FlagAfterResponse(allow, status_code) ==
    IF StatusSuccess(status_code) THEN allow ELSE FALSE

\* lines 54-58 leave the flag alone
FlagResetAfterClosedBranch(allow) ==
    TRUE

FlagAfterClosedBranch(allow) ==
    allow

\* line 56
FailFastNever(eio) ==
    FALSE

FailFastAlways(eio) ==
    TRUE

FailFast(eio) ==
    eio

\* lines 54-58, entered with the flag already at its new value `allow`
ClosedBranch(allow) ==
    /\ stdout' = "Api response error!"
    /\ api_request_allow' = FlagAfterClosedBranch(allow)
    /\ IF FailFast(exit_if_not)
       THEN \* sys.exit("exit")
            /\ pc' = "end"
            /\ gpc' = "idle"
            /\ g_ret' = NoResponse
            /\ stderr' = "exit"
            /\ exit_status' = 1
            /\ termination' = "sys.exit"
       ELSE /\ gpc' = "ret"
            /\ g_ret' = FalseVal
            /\ UNCHANGED <<pc, endVars>>

\* the call api_get_request(url, exit_if_not)
GateCall(url, eio) ==
    /\ gpc' = "enter"
    /\ g_url' = url
    /\ exit_if_not' = eio
    /\ g_ret' = NoResponse

\* lines 47-48 with the gate open, lines 54-58 with the gate closed
GateEnter ==
    /\ gpc = "enter"
    /\ IF GateOpen(api_request_allow)
       THEN /\ StubbornCall(g_url)
            /\ gpc' = "await"
            /\ UNCHANGED <<pc, api_request_allow, g_ret, stdout, endVars>>
       ELSE /\ ClosedBranch(api_request_allow)
            /\ UNCHANGED netVars
    /\ UNCHANGED <<g_url, exit_if_not, gate_closures, progVars>>

\* lines 49-52 once stubborn_request has returned, then lines 54-58
GateStatus ==
    /\ gpc = "await"
    /\ tpc = "got"
    /\ StubbornReturn
    /\ IF StatusSuccess(response.status_code)
       THEN /\ gpc' = "ret"
            /\ g_ret' = response
            /\ api_request_allow' = FlagAfterResponse(api_request_allow, response.status_code)
            /\ UNCHANGED <<pc, stdout, endVars, gate_closures>>
       ELSE /\ gate_closures' = gate_closures + 1
            /\ ClosedBranch(FlagAfterResponse(api_request_allow, response.status_code))
    /\ UNCHANGED <<g_url, exit_if_not, progVars>>

\* --------------------------------------------------------- python helpers

RECURSIVE Join(_, _)
\* sep.join(strs) for strs without None; a str is a sequence of tokens
Join(sep, strs) ==
    IF strs = <<>> THEN <<>>
    ELSE IF Len(strs) = 1 THEN strs[1]
    ELSE strs[1] \o sep \o Join(sep, Tail(strs))

\* ",".join(buffer) raises TypeError when an element is None (line 147)
JoinRaises(strs) ==
    \E i \in 1..Len(strs) : strs[i] = NoneVal

RECURSIVE Replace(_, _, _)
\* s.replace(old, new) for a one-token old; new is a (possibly empty) str
Replace(s, old, new) ==
    IF s = <<>> THEN <<>>
    ELSE (IF s[1] = old THEN new ELSE <<s[1]>>) \o Replace(Tail(s), old, new)

\* d[key] if key in d else None (lines 132-135, 159-161)
GetOrNone(d, key) ==
    IF key \in DOMAIN d THEN d[key] ELSE NoneVal

Restrict(f, keys) ==
    [x \in keys |-> f[x]]

\* ------------------------------------------------------------------ URLs

\* args.url, the channel's web page
ChannelPageUrl ==
    [endpoint |-> "channel_page"]

\* line 222
KeyProbeUrl(key) ==
    [endpoint |-> "channels", id |-> <<"UCK8sQmJBp8GCxrOtXWBpyEA">>,
     maxResults |-> default_max_results, key |-> key]

\* line 77
ChannelsUrl(channel_id, max_results, api_key) ==
    [endpoint |-> "channels", id |-> channel_id, maxResults |-> max_results,
     key |-> api_key]

\* lines 86 and 114; page_token is "" or "&pageToken=<token>"
PlaylistItemsUrl(playlist_id, max_results, api_key, page_token) ==
    [endpoint |-> "playlistItems", playlistId |-> playlist_id,
     maxResults |-> max_results, key |-> api_key, pageToken |-> page_token]

\* line 148
VideosUrl(max_results, api_key, videos_id_str) ==
    [endpoint |-> "videos", id |-> videos_id_str, maxResults |-> max_results,
     key |-> api_key]

\* the url an importing caller hands to api_get_request
LibUrl ==
    [endpoint |-> "any"]

\* ------------------------------------------------- the servers' payloads

EmptyBody ==
    [error |-> TRUE]

\* the channel page: its <link rel="canonical"> href, split at '/', or none
HtmlBodies ==
    { [canonical |-> NoneVal],
      [canonical |-> <<"https:", "", "www.youtube.com", "channel", "UC1">>] }

\* channels: {items: [{contentDetails: {relatedPlaylists: {uploads}}}]}
ChannelItem(uploads) ==
    [contentDetails |-> [relatedPlaylists |-> [uploads |-> uploads]]]

ChannelsBodies ==
    { [items |-> <<>>],
      [items |-> <<ChannelItem(<<"UU1">>)>>],
      [items |-> <<ChannelItem(<<"UU2">>), ChannelItem(<<"UU1">>)>>] }

Timestamp ==
    <<"2021-05-01", "T", "12:00:00", "Z">>

\* what one playlistItems item lacks
ItemShapes ==
    {"full", "noTitle", "noDescription", "noVideoId", "noPublishedAt", "otherKind"}

VideoIdAt(k, i) ==
    <<"v", Digit[k + 1], Digit[i + 1]>>

\* item i of page k of the playlistItems listing
Item(k, i, shape) ==
    [kind |-> IF shape = "otherKind" THEN "youtube#other" ELSE "youtube#playlistItem",
     snippet |->
        Restrict([title |-> <<"title", Digit[k + 1], Digit[i + 1]>>,
                  description |-> <<"description", Digit[k + 1], Digit[i + 1]>>,
                  publishedAt |-> Timestamp,
                  channelTitle |-> <<"Channel">>],
                 {"title", "description", "publishedAt", "channelTitle"}
                   \ (CASE shape = "noTitle" -> {"title"}
                        [] shape = "noDescription" -> {"description"}
                        [] shape = "noPublishedAt" -> {"publishedAt"}
                        [] shape = "noChannelTitle" -> {"channelTitle"}
                        [] OTHER -> {})),
     contentDetails |->
        IF shape = "noVideoId" THEN <<>> ELSE [videoId |-> VideoIdAt(k, i)]]

\* the pages the playlistItems server may put together
PageShapes ==
    { <<>>,
      <<"full">>,
      <<"full", "full">>,
      <<"otherKind", "full">>,
      <<"noTitle", "noDescription", "noPublishedAt">>,
      <<"noVideoId", "full">> }

PageToken(k) ==
    <<"tok", Digit[k + 1]>>

\* page k: its items, the total, and nextPageToken when more is true
PageBody(k, shapes, total, more) ==
    LET base == [items |-> [i \in 1..Len(shapes) |-> Item(k, i, shapes[i])],
                 pageInfo |-> [totalResults |-> total]]
    IN  IF more
        THEN [x \in {"items", "pageInfo", "nextPageToken"} |->
                IF x = "nextPageToken" THEN PageToken(k + 1) ELSE base[x]]
        ELSE base

\* the total pageInfo reports for a channel that has videos
DeclaredTotal ==
    2 * MaxPages

\* what the listing answers to fetch_channel_data
SummaryBodies ==
    { PageBody(1, <<>>, 0, FALSE) }
    \cup { PageBody(1, <<sh>>, DeclaredTotal, TRUE)
             : sh \in {"full", "noChannelTitle"} }

\* what the listing answers to request k of get_videos_list; the server has
\* at most MaxPages pages
ListBodies(k) ==
    { PageBody(k, shapes, DeclaredTotal, more)
        : shapes \in PageShapes, more \in {m \in BOOLEAN : m => k < MaxPages} }

RECURSIVE SplitIds(_)
\* the ids of a videos request: str.split(",") of its id parameter
SplitIds(str) ==
    IF str = <<>> THEN <<>>
    ELSE LET cut == IF \E j \in 1..Len(str) : str[j] = ","
                    THEN CHOOSE j \in 1..Len(str) :
                           /\ str[j] = ","
                           /\ \A h \in 1..(j - 1) : str[h] # ","
                    ELSE Len(str) + 1
         IN  <<SubSeq(str, 1, cut - 1)>>
               \o (IF cut >= Len(str) THEN <<>>
                   ELSE SplitIds(SubSeq(str, cut + 1, Len(str))))

\* the statistics of video id; shape names the key left out, if any
StatsItem(id, shape) ==
    [id |-> id,
     statistics |->
        Restrict([viewCount |-> <<"views">> \o id,
                  likeCount |-> <<"likes">> \o id,
                  commentCount |-> <<"comments">> \o id],
                 {"viewCount", "likeCount", "commentCount"}
                   \ (IF shape = "noLikes" THEN {"likeCount"} ELSE {}))]

\* how the videos server answers a request for ids: every id in order, every
\* id with likeCount hidden, all but the first id, or one item too many
StatsBehaviours ==
    {"all", "noLikes", "dropFirst", "extra"}

StatsBody(ids, behaviour) ==
    LET answer(shape) == [j \in 1..Len(ids) |-> StatsItem(ids[j], shape)]
    IN  [items |->
           CASE behaviour = "all" -> answer("full")
             [] behaviour = "noLikes" -> answer("noLikes")
             [] behaviour = "dropFirst" ->
                  IF ids = <<>> THEN <<>> ELSE Tail(answer("full"))
             [] OTHER -> Append(answer("full"), StatsItem(<<"v", "x", "x">>, "full"))]

StatsBodies(url) ==
    { StatsBody(SplitIds(url.id), b) : b \in StatsBehaviours }

\* --------------------------------------------------------- process endings

\* sys.exit(message): the message goes to stderr, the exit status is 1
SysExit(message) ==
    /\ pc' = "end"
    /\ stderr' = message
    /\ exit_status' = 1
    /\ termination' = "sys.exit"

\* an exception nobody catches: traceback on stderr, exit status 1
Uncaught(exception) ==
    /\ pc' = "end"
    /\ stderr' = "Traceback (most recent call last)"
    /\ exit_status' = 1
    /\ termination' = exception

\* main returns: the interpreter exits with status 0
MainReturns(how) ==
    /\ pc' = "end"
    /\ exit_status' = 0
    /\ termination' = how
    /\ UNCHANGED stderr

\* ------------------------------------------- get_args, correct_args (188-214)

\* the values of -maxr and -out tried
MaxrInputs ==
    {0, 25}

OutInputs ==
    { <<"y", "t", "b">>, <<"a", "/", "b">> }

\* line 194 with 0 let through
OutOfRangeBelowZero(maxr) ==
    maxr < 0 \/ maxr > default_max_results

\* line 194
OutOfRange(maxr) ==
    maxr <= 0 \/ maxr > default_max_results

\* lines 194-198
correct_args(a) ==
    IF OutOfRange(a.maxr) THEN [a EXCEPT !.maxr = default_max_results] ELSE a

\* the local variables before they are bound; the names that will hold a
\* number (a status code, the total) start at 0, the others at None
InitLocals ==
    [url_resp |-> 0, api_resp |-> 0, channel_id |-> NoneVal,
     playlist_id |-> NoneVal, channel_title |-> NoneVal, videos_number |-> 0,
     page_token |-> <<>>, run |-> TRUE, total_counter |-> 0, page |-> 0,
     json_response |-> NoneVal, title_buffer |-> <<>>, description_buffer |-> <<>>,
     video_id_buffer |-> <<>>, publish_time_buffer |-> <<>>]

\* lines 245-246, 201-214, 188-198 and validate_args up to its first request
GetArgs(maxr, out) ==
    /\ pc = "get_args"
    /\ args' = correct_args([url |-> ChannelPageUrl, key |-> <<"KEY">>,
                             out |-> out, maxr |-> maxr])
    /\ stdout' = IF OutOfRange(maxr)
                 THEN "warning: -maxr argument changed to default: 50"
                 ELSE "Arguments validation..."
    /\ StubbornCall(args'.url)
    /\ pc' = "validate_url"
    /\ UNCHANGED <<api_request_allow, gate_closures, gateVars, endVars,
                   locals, videos_list, pages_log, out_file, lib_calls>>

\* ------------------------------------------------- validate_args (217-240)

\* line 220 returned, line 221 is issued
ValidateUrl ==
    /\ pc = "validate_url"
    /\ tpc = "got"
    /\ pc' = "validate_api"
    /\ locals' = [locals EXCEPT !.url_resp = response.status_code]
    /\ StubbornCall(KeyProbeUrl(args.key))
    /\ UNCHANGED <<args, api_request_allow, gate_closures, gateVars, endVars,
                   stdout, videos_list, pages_log, out_file, lib_calls>>

\* line 236: the characters of '\/:*?"<>|'
ForbiddenChars ==
    {"\\", "/", ":", "*", "?", "\"", "<", ">", "|"}

\* line 236 with the test left out: every name can be saved
os_can_save_any(file_name) ==
    TRUE

os_can_save(file_name) ==
    Cardinality({c \in ForbiddenChars : \E i \in 1..Len(file_name) : file_name[i] = c}) = 0

\* lines 219-240: error_m, one entry per message
error_m(url_status, api_status, out) ==
    (IF url_status = HTTP_NOT_FOUND
     THEN <<"Error: youtube channel do not exists!">> ELSE <<>>)
    \o (IF api_status = HTTP_BAD_REQUEST
        THEN <<"Error: api key not valid!">> ELSE <<>>)
    \o (IF url_status # HTTP_NOT_FOUND /\ url_status # HTTP_OK
        THEN <<"Error: url response error!">> ELSE <<>>)
    \o (IF api_status # HTTP_BAD_REQUEST /\ api_status # HTTP_OK
        THEN <<"Error: api response error!">> ELSE <<>>)
    \o (IF ~os_can_save(out)
        THEN <<"Error: file name can not contain \\/:*?\"<>| symbols!">> ELSE <<>>)

\* line 221 returned; lines 225-240, then main 247-265 and get_channel_id up
\* to its request (line 64)
ValidateApi ==
    /\ pc = "validate_api"
    /\ tpc = "got"
    /\ LET validation_error == error_m(locals.url_resp, response.status_code, args.out)
       IN  IF validation_error # <<>>
           THEN /\ stdout' = validation_error[Len(validation_error)]
                /\ MainReturns("validation_error")
                /\ StubbornReturn
                /\ locals' = [locals EXCEPT !.api_resp = response.status_code]
           ELSE /\ stdout' = "Fetching channel id & playlist id..."
                /\ StubbornCall(args.url)
                /\ pc' = "channel_id"
                /\ locals' = InitLocals
                /\ UNCHANGED endVars
    /\ UNCHANGED <<args, api_request_allow, gate_closures, gateVars,
                   videos_list, pages_log, out_file, lib_calls>>

\* ------------------------------------ get_channel_id (61-70), lines 75-78

\* line 67: href.split('/')[-1]
LastSegment(href) ==
    href[Len(href)]

\* line 64 returned; lines 65-70; then lines 77-78 up to the gated call
GetChannelId ==
    /\ pc = "channel_id"
    /\ tpc = "got"
    /\ StubbornReturn
    /\ IF response.body.canonical = NoneVal
       THEN \* bs.find(...) is None: the bare except turns it into sys.exit
            /\ SysExit("error: can not parse html page to find channel id")
            /\ UNCHANGED <<locals, gateVars>>
       ELSE /\ locals' = [locals EXCEPT !.channel_id = <<LastSegment(response.body.canonical)>>]
            /\ GateCall(ChannelsUrl(locals'.channel_id, args.maxr, args.key), TRUE)
            /\ pc' = "resolver"
            /\ UNCHANGED endVars
    /\ UNCHANGED <<args, api_request_allow, gate_closures, stdout,
                   videos_list, pages_log, out_file, lib_calls>>

\* --------------------------- fetch_channel_playlist_id (73-81), lines 267-269

\* line 79
UploadsOfFirst(items) ==
    items[1].contentDetails.relatedPlaylists.uploads

\* line 78 returned a response; lines 79-81, then 267-269 and line 86-87 up to
\* the gated call
Resolver ==
    /\ pc = "resolver"
    /\ gpc = "ret"
    /\ IF g_ret.body.items = <<>>
       THEN \* items[0] of an empty list
            /\ Uncaught("IndexError")
            /\ gpc' = "idle"
            /\ UNCHANGED <<locals, stdout, g_url, exit_if_not, g_ret>>
       ELSE /\ locals' = [locals EXCEPT !.playlist_id = UploadsOfFirst(g_ret.body.items)]
            /\ stdout' = "Fetching channel data..."
            /\ GateCall(PlaylistItemsUrl(locals'.playlist_id, args.maxr, args.key, <<>>), TRUE)
            /\ pc' = "summary"
            /\ UNCHANGED endVars
    /\ UNCHANGED <<args, api_request_allow, gate_closures, netVars,
                   videos_list, pages_log, out_file, lib_calls>>

\* ------------------------------------ fetch_channel_data (84-94), lines 99-116

\* lines 116 and 150 with exit_if_not=True passed
EngineFailFastSet ==
    TRUE

\* lines 116 and 150: get_videos_list calls api_get_request(url), leaving
\* exit_if_not at its default (line 44)
EngineFailFast ==
    FALSE

\* the first request of the loop of get_videos_list, lines 114-116
ListCall(playlist_id, page_token) ==
    GateCall(PlaylistItemsUrl(playlist_id, args.maxr, args.key, page_token), EngineFailFast)

\* line 87 returned a response; lines 89-94, main 269-272, lines 99-116 up to
\* the gated call
Summary ==
    /\ pc = "summary"
    /\ gpc = "ret"
    /\ LET response_json == g_ret.body
       IN  IF /\ Len(response_json.items) # 0
              /\ "channelTitle" \notin DOMAIN response_json.items[1].snippet
           THEN /\ Uncaught("KeyError")
                /\ gpc' = "idle"
                /\ UNCHANGED <<locals, g_url, exit_if_not, g_ret>>
           ELSE /\ locals' = [locals EXCEPT
                      !.channel_title =
                          IF Len(response_json.items) # 0
                          THEN response_json.items[1].snippet.channelTitle
                          ELSE NoneVal,
                      !.videos_number = response_json.pageInfo.totalResults,
                      !.page_token = <<>>,
                      !.run = TRUE,
                      !.total_counter = 0,
                      !.page = 1]
                /\ ListCall(locals.playlist_id, <<>>)
                /\ pc' = "list"
                /\ UNCHANGED endVars
    /\ UNCHANGED <<args, api_request_allow, gate_closures, netVars, stdout,
                   videos_list, pages_log, out_file, lib_calls>>

\* ------------------------------------------------ get_videos_list (97-185)

IsPlaylistItem(item) ==
    item.kind = "youtube#playlistItem"

\* line 130: the items of a page that are playlist entries, in page order
Entries(items) ==
    SelectSeq(items, IsPlaylistItem)

\* line 135
NormalizeTime(publishedAt) ==
    Replace(Replace(publishedAt, "T", <<" ">>), "Z", <<>>)

\* lines 132-140: the four buffers of one page
TitleBuffer(items) ==
    [i \in 1..Len(Entries(items)) |-> GetOrNone(Entries(items)[i].snippet, "title")]

DescriptionBuffer(items) ==
    [i \in 1..Len(Entries(items)) |-> GetOrNone(Entries(items)[i].snippet, "description")]

\* line 134 taken out of the test of line 130: the id of every item
VideoIdBufferOfAllItems(items) ==
    [i \in 1..Len(items) |-> GetOrNone(items[i].contentDetails, "videoId")]

VideoIdBuffer(items) ==
    [i \in 1..Len(Entries(items)) |-> GetOrNone(Entries(items)[i].contentDetails, "videoId")]

PublishTimeBuffer(items) ==
    [i \in 1..Len(Entries(items)) |->
        IF "publishedAt" \in DOMAIN Entries(items)[i].snippet
        THEN NormalizeTime(Entries(items)[i].snippet.publishedAt)
        ELSE NoneVal]

youtube_link ==
    <<"https://www.youtube.com/watch?v=">>

\* lines 159-174: the record of statistics item i of the page
VideoRecord(l, video, i) ==
    [title |-> l.title_buffer[i],
     link |-> youtube_link \o l.video_id_buffer[i],
     publish_time |-> l.publish_time_buffer[i],
     views |-> GetOrNone(video.statistics, "viewCount"),
     likes |-> GetOrNone(video.statistics, "likeCount"),
     comments_number |-> GetOrNone(video.statistics, "commentCount"),
     description |-> l.description_buffer[i]]

\* line 157: the statistics items the loop gets through before title_buffer[i]
\* raises IndexError
Zipped(l, stats) ==
    IF Len(stats) <= Len(l.title_buffer) THEN Len(stats) ELSE Len(l.title_buffer)

\* lines 157-174: the records appended for one page
PageRecords(l, stats) ==
    [i \in 1..Zipped(l, stats) |-> VideoRecord(l, stats[i], i)]

\* lines 151-152: what the page in hand adds to the result when the statistics
\* call gives False
RecordsKeptWithoutStats(l) ==
    [i \in 1..Len(l.title_buffer) |-> VideoRecord(l, [statistics |-> <<>>], i)]

RecordsWithoutStats(l) ==
    <<>>

\* line 181 left out: the cursor of the request before stays
page_token_kept(page_token, json_response) ==
    page_token

\* lines 180-181: page_token once a page that carries nextPageToken is done
page_token_after(page_token, json_response) ==
    <<"&pageToken=">> \o json_response.nextPageToken

\* line 116 returned; lines 117-150 up to the statistics call
ListPage ==
    /\ pc = "list"
    /\ gpc = "ret"
    /\ IF g_ret.kind = "False"
       THEN \* line 118: return videos_list
            /\ pc' = "save"
            /\ gpc' = "idle"
            /\ UNCHANGED <<locals, pages_log, endVars, g_url, exit_if_not, g_ret>>
       ELSE LET json_response == g_ret.body
                parsed == [locals EXCEPT
                    !.json_response = json_response,
                    !.title_buffer = TitleBuffer(json_response.items),
                    !.description_buffer = DescriptionBuffer(json_response.items),
                    !.video_id_buffer = VideoIdBuffer(json_response.items),
                    !.publish_time_buffer = PublishTimeBuffer(json_response.items),
                    !.total_counter = locals.total_counter
                                        + Len(Entries(json_response.items))]
            IN  /\ locals' = parsed
                /\ pages_log' = Append(pages_log,
                                       [page |-> locals.page,
                                        entries |-> Entries(json_response.items),
                                        before |-> videos_list,
                                        next |-> GetOrNone(json_response, "nextPageToken"),
                                        zipped |-> FALSE,
                                        stats |-> <<>>])
                /\ IF JoinRaises(parsed.video_id_buffer)
                   THEN /\ Uncaught("TypeError")
                        /\ gpc' = "idle"
                        /\ UNCHANGED <<g_url, exit_if_not, g_ret>>
                   ELSE /\ GateCall(VideosUrl(args.maxr, args.key,
                                              Join(<<",">>, parsed.video_id_buffer)),
                                    EngineFailFast)
                        /\ pc' = "stats"
                        /\ UNCHANGED endVars
    /\ UNCHANGED <<args, api_request_allow, gate_closures, netVars, stdout,
                   videos_list, out_file, lib_calls>>

\* line 150 returned; lines 151-185, and lines 114-116 of the next round
StatsPage ==
    /\ pc = "stats"
    /\ gpc = "ret"
    /\ IF g_ret.kind = "False"
       THEN \* line 152: return videos_list
            /\ pc' = "save"
            /\ gpc' = "idle"
            /\ videos_list' = videos_list \o RecordsWithoutStats(locals)
            /\ UNCHANGED <<locals, pages_log, stdout, endVars, g_url, exit_if_not, g_ret>>
       ELSE LET stats == g_ret.body.items
            IN  /\ videos_list' = videos_list \o PageRecords(locals, stats)
                /\ pages_log' = [pages_log EXCEPT ![Len(pages_log)].zipped = TRUE,
                                                  ![Len(pages_log)].stats = stats]
                /\ IF Len(stats) > Len(locals.title_buffer)
                   THEN \* title_buffer[i] past the end of the buffer
                        /\ Uncaught("IndexError")
                        /\ gpc' = "idle"
                        /\ UNCHANGED <<locals, stdout, g_url, exit_if_not, g_ret>>
                   ELSE /\ stdout' = "Parsed total_counter videos"
                        /\ UNCHANGED endVars
                        /\ IF "nextPageToken" \in DOMAIN locals.json_response
                           THEN /\ locals' = [locals EXCEPT
                                      !.page_token = page_token_after(locals.page_token,
                                                                      locals.json_response),
                                      !.page = locals.page + 1]
                                /\ ListCall(locals.playlist_id, locals'.page_token)
                                /\ pc' = "list"
                           ELSE /\ locals' = [locals EXCEPT !.run = FALSE]
                                /\ pc' = "save"
                                /\ gpc' = "idle"
                                /\ UNCHANGED <<g_url, exit_if_not, g_ret>>
    /\ UNCHANGED <<args, api_request_allow, gate_closures, netVars,
                   out_file, lib_calls>>

\* ------------------------------------------------------- main, lines 274-283

\* line 276 with the videos counted instead of the total reported
channel_data_json_counted(l, videos) ==
    [channel_title |-> l.channel_title, videos_number |-> Len(videos),
     videos |-> videos]

channel_data_json(l, videos) ==
    [channel_title |-> l.channel_title, videos_number |-> l.videos_number,
     videos |-> videos]

Save ==
    /\ pc = "save"
    /\ stdout' = "Saving json file..."
    /\ out_file' = [written |-> TRUE, name |-> args.out \o <<".json">>,
                    content |-> channel_data_json(locals, videos_list)]
    /\ MainReturns("completed")
    /\ UNCHANGED <<args, api_request_allow, gate_closures, gateVars, netVars,
                   locals, videos_list, pages_log, lib_calls>>

\* ----------------------------------------- a caller that imports the module

\* api_get_request is a module-level function: a program that imports main.py
\* (main() runs only under __name__ == "__main__") calls it any number of
\* times, with either value of exit_if_not
LibCall(eio) ==
    /\ pc = "lib"
    /\ gpc = "idle"
    /\ tpc = "idle"
    /\ lib_calls < MaxCalls
    /\ lib_calls' = lib_calls + 1
    /\ GateCall(LibUrl, eio)
    /\ UNCHANGED <<pc, args, api_request_allow, gate_closures, netVars, stdout,
                   endVars, locals, videos_list, pages_log, out_file>>

LibReturn ==
    /\ pc = "lib"
    /\ gpc = "ret"
    /\ gpc' = "idle"
    /\ UNCHANGED <<pc, args, api_request_allow, gate_closures, netVars, stdout,
                   endVars, locals, videos_list, pages_log, out_file, lib_calls,
                   g_url, exit_if_not, g_ret>>

\* the same caller calls stubborn_request itself, as validate_args does
LibFetch ==
    /\ pc = "lib"
    /\ gpc = "idle"
    /\ tpc = "idle"
    /\ lib_calls < MaxCalls
    /\ lib_calls' = lib_calls + 1
    /\ StubbornCall(LibUrl)
    /\ UNCHANGED <<pc, args, api_request_allow, gate_closures, gateVars, stdout,
                   endVars, locals, videos_list, pages_log, out_file>>

LibFetchReturn ==
    /\ pc = "lib"
    /\ gpc = "idle"
    /\ tpc = "got"
    /\ StubbornReturn
    /\ UNCHANGED <<pc, args, api_request_allow, gate_closures, gateVars, stdout,
                   endVars, locals, videos_list, pages_log, out_file, lib_calls>>

\* ------------------------------------------------------------ specifications

\* the payloads the server asked may answer with
Bodies(status_code) ==
    CASE pc = "channel_id" -> HtmlBodies
      [] pc = "resolver" /\ status_code = HTTP_OK -> ChannelsBodies
      [] pc = "summary" /\ status_code = HTTP_OK -> SummaryBodies
      [] pc = "list" /\ status_code = HTTP_OK -> ListBodies(locals.page)
      [] pc = "stats" /\ status_code = HTTP_OK -> StatsBodies(t_url)
      [] OTHER -> {EmptyBody}

Fault ==
    \E exc \in TransientFaults : TransportFault(exc)

Deliver ==
    /\ tpc = "attempt"
    /\ \E status_code \in StatusCodes :
          \E body \in Bodies(status_code) : TransportDeliver(status_code, body)

\* the module globals and the bookkeeping before anything has run
InitGlobals ==
    /\ api_request_allow = TRUE
    /\ gpc = "idle"
    /\ g_url = NoUrl
    /\ exit_if_not = FALSE
    /\ g_ret = NoResponse
    /\ tpc = "idle"
    /\ t_url = NoUrl
    /\ response = NoResponse
    /\ retries = 0
    /\ slept = 0
    /\ stdout = ""
    /\ stderr = ""
    /\ exit_status = -1
    /\ termination = "running"
    /\ requests_log = <<>>
    /\ gate_closures = 0
    /\ locals = InitLocals
    /\ videos_list = <<>>
    /\ pages_log = <<>>
    /\ out_file = [written |-> FALSE]
    /\ lib_calls = 0

InitCommon ==
    /\ args = [url |-> ChannelPageUrl, key |-> <<"KEY">>, out |-> <<>>, maxr |-> 0]
    /\ InitGlobals

\* python main.py -url ... -key ... -out ... -maxr ...
Init ==
    /\ pc = "get_args"
    /\ InitCommon

Program ==
    \/ \E maxr \in MaxrInputs, out \in OutInputs : GetArgs(maxr, out)
    \/ ValidateUrl
    \/ ValidateApi
    \/ GetChannelId
    \/ GateEnter
    \/ GateStatus
    \/ Resolver
    \/ Summary
    \/ ListPage
    \/ StatsPage
    \/ Save

Next ==
    \/ Program
    \/ Fault
    \/ Deliver

Spec ==
    Init /\ [][Next]_vars

\* one answer every server can give to every request
DeliverNotFound ==
    /\ tpc = "attempt"
    /\ \E body \in Bodies(HTTP_NOT_FOUND) : TransportDeliver(HTTP_NOT_FOUND, body)

\* every statement of the sequential program is eventually executed, and the
\* network eventually answers the request in flight.  Any answer ends the wait
\* of stubborn_request, so weak fairness of the one answer DeliverNotFound
\* allows every behaviour weak fairness of Deliver allows and no other.
FairSpec ==
    Spec /\ WF_vars(Program) /\ WF_vars(DeliverNotFound)

\* import main, then calls of api_get_request
InitLib ==
    /\ pc = "lib"
    /\ InitCommon

NextLib ==
    \/ \E eio \in BOOLEAN : LibCall(eio)
    \/ LibReturn
    \/ GateEnter
    \/ GateStatus
    \/ Fault
    \/ Deliver

GateSpec ==
    InitLib /\ [][NextLib]_vars

\* import main, then calls of stubborn_request
NextFetch ==
    \/ LibFetch
    \/ LibFetchReturn
    \/ Fault
    \/ Deliver

TransportSpec ==
    InitLib /\ [][NextFetch]_vars

\* the network eventually answers the request in flight
FairTransportSpec ==
    TransportSpec /\ WF_vars(Deliver)

\* the page sizes handed to correct_args
MaxrTried ==
    (0 - MaxExcess)..(default_max_results + MaxExcess)

\* lines 188-198: correct_args(args), called on a namespace of its own
CorrectArgs ==
    /\ pc = "correct_args"
    /\ args' = correct_args(args)
    /\ stdout' = IF OutOfRange(args.maxr)
                 THEN "warning: -maxr argument changed to default: 50"
                 ELSE stdout
    /\ pc' = "corrected"
    /\ UNCHANGED <<api_request_allow, gate_closures, gateVars, netVars, endVars,
                   locals, videos_list, pages_log, out_file, lib_calls>>

InitClamp ==
    /\ pc = "correct_args"
    /\ \E n \in MaxrTried :
          args = [url |-> ChannelPageUrl, key |-> <<"KEY">>, out |-> <<"y", "t", "b">>,
                  maxr |-> n]
    /\ InitGlobals

NextClamp ==
    CorrectArgs

\* import main, then one call of correct_args
ClampSpec ==
    InitClamp /\ [][NextClamp]_vars

\* ------------------------------------------------------------------ claims

Last(seq) ==
    seq[Len(seq)]

\* C1: once the request gate has been closed, no later step hands a request to
\* the transport: whatever gated call runs, the log of requests stays as it is
\* and stubborn_request is never entered.
C1_NoRequestAfterClosure ==
    [][~api_request_allow =>
          /\ requests_log' = requests_log
          /\ tpc' = "idle"
          /\ retries' = retries]_vars

\* a second gated call has run against the closed gate and come back with
\* False, the one request of the run being the one that closed the gate
C1_Witness ==
    /\ ~api_request_allow
    /\ lib_calls >= 2
    /\ gpc = "ret"
    /\ g_ret = FalseVal
    /\ Len(requests_log) = 1

\* C2: the gate is open at process start, line 50 closes it at most once in a
\* run, and once closed no step opens it again.
C2_GateOneWay ==
    /\ api_request_allow = TRUE
    /\ [](gate_closures <= 1 /\ (api_request_allow <=> gate_closures = 0))
    /\ [][~api_request_allow => ~api_request_allow']_vars

\* the gate was closed and every call the caller had left was made after that
C2_Witness ==
    /\ ~api_request_allow
    /\ gate_closures = 1
    /\ lib_calls = MaxCalls
    /\ gpc = "idle"
    /\ pc = "lib"

\* the step of api_get_request that looks at the response of an open gate
GateLooksAtResponse ==
    /\ gpc = "await"
    /\ tpc = "got"
    /\ gpc' # "await"
    /\ api_request_allow

\* C3 as the spec states it: with the gate open, a response whose status code
\* is in the 2xx range is returned and leaves the gate open, and a response
\* whose status code is outside that range closes the gate.
C3_SuccessIs2xx ==
    [][GateLooksAtResponse =>
          IF response.status_code \in 200..299
          THEN api_request_allow' /\ gpc' = "ret" /\ g_ret' = response
          ELSE ~api_request_allow']_vars

\* C3, amended: with the gate open, a response whose status code is 200 is
\* returned and leaves the gate open, and a response with any other status
\* code, the other 2xx codes included, closes the gate.
C3_SuccessIs200 ==
    [][GateLooksAtResponse =>
          IF response.status_code = 200
          THEN api_request_allow' /\ gpc' = "ret" /\ g_ret' = response
          ELSE ~api_request_allow']_vars

\* a 204 response has closed the gate
C3_Witness ==
    /\ ~api_request_allow
    /\ gate_closures = 1
    /\ response.kind = "Response"
    /\ response.status_code = 204

\* a step of a gated call that ends with the gate closed: the gate was closed
\* on entry, or this call's own response has just closed it
GatedCallFindsGateClosed ==
    /\ gpc = "enter" \/ (gpc = "await" /\ tpc = "got")
    /\ gpc' # gpc
    /\ ~api_request_allow'

\* C4: a gated call that finds the gate closed prints "Api response error!"
\* and, with exit_if_not true, ends the process at once with a non-zero exit
\* status; with exit_if_not false it returns False, never a response, and the
\* process goes on.  An ended process takes no further step.
C4_ClosedBranch ==
    /\ [][GatedCallFindsGateClosed =>
            /\ stdout' = "Api response error!"
            /\ IF exit_if_not
               THEN /\ pc' = "end"
                    /\ termination' = "sys.exit"
                    /\ exit_status' > 0
               ELSE /\ gpc' = "ret"
                    /\ g_ret' = FalseVal
                    /\ g_ret'.kind # "Response"
                    /\ pc' = pc
                    /\ exit_status' = -1
                    /\ termination' = "running"]_vars
    /\ [][pc # "end"]_vars

\* a fail-fast call found the gate closed by an earlier call and ended the run
C4_Witness ==
    /\ pc = "end"
    /\ termination = "sys.exit"
    /\ exit_status = 1
    /\ stdout = "Api response error!"
    /\ lib_calls >= 2
    /\ Len(requests_log) = 1

\* C5: stubborn_request never fails and never gives up: while it has no
\* response it keeps asking for the same URL, the only way out of it is a
\* response to that URL, of whatever status code, and if the network
\* eventually answers (the fairness of FairTransportSpec) it eventually returns.
C5_TransportReturns ==
    /\ [][tpc = "attempt" =>
            /\ pc' = pc
            /\ termination' = "running"
            /\ requests_log' = requests_log
            /\ \/ tpc' = "attempt" /\ t_url' = t_url /\ response' = NoResponse
               \/ /\ tpc' = "got"
                  /\ t_url' = t_url
                  /\ response'.kind = "Response"
                  /\ response'.url = t_url]_vars
    /\ (tpc = "attempt") ~> (tpc = "got")

\* after the retries of transient faults a 404 response has been returned
C5_Witness ==
    /\ tpc = "got"
    /\ gpc = "idle"
    /\ retries = MaxRetries
    /\ slept = sec_bet_req
    /\ response.status_code = 404

\* get_videos_list has been entered
EngineStarted ==
    locals.page >= 1

\* get_videos_list has returned or the process is over
EngineStopped ==
    pc \in {"save", "end"}

\* requests of get_videos_list so far: the playlistItems requests but the one
\* of fetch_channel_data, and the videos requests
ListRequests ==
    Cardinality({i \in 1..Len(requests_log) :
                    requests_log[i].endpoint = "playlistItems"}) - 1

StatsRequests ==
    Cardinality({i \in 1..Len(requests_log) : requests_log[i].endpoint = "videos"})

\* C6 as the spec states it: whatever pages the server serves, if the gate
\* stays open the engine ends in DONE (it returns, and the run completes),
\* having made one playlistItems request and one statistics request per page
\* served, the last page served being the first without a cursor.
C6_PaginationTerminates ==
    (EngineStarted /\ EngineStopped /\ api_request_allow) =>
        /\ termination \in {"running", "completed"}
        /\ ListRequests = Len(pages_log)
        /\ StatsRequests = Len(pages_log)
        /\ \A j \in 1..Len(pages_log) :
              (pages_log[j].next = NoneVal) <=> (j = Len(pages_log))

\* what a record takes from its playlist entry, and the same of the entry
ItemPart(record) ==
    <<record.title, record.link, record.description>>

EntryPart(entry) ==
    <<GetOrNone(entry.snippet, "title"),
      youtube_link \o GetOrNone(entry.contentDetails, "videoId"),
      GetOrNone(entry.snippet, "description")>>

RECURSIVE EntriesOfPages(_)
\* the playlist entries of the pages zipped so far, page after page
EntriesOfPages(log) ==
    IF log = <<>> THEN <<>>
    ELSE (IF log[1].zipped THEN log[1].entries ELSE <<>>) \o EntriesOfPages(Tail(log))

\* C7 as the spec states it: at every point of the run the video sequence is
\* the concatenation, in page order, of the playlist entries of the pages
\* processed so far, in their order on the page; and a step only ever appends
\* at the end of the sequence.
C7_OrderPreserved ==
    /\ [](/\ Len(videos_list) = Len(EntriesOfPages(pages_log))
          /\ \A i \in 1..Len(videos_list) :
                ItemPart(videos_list[i]) = EntryPart(EntriesOfPages(pages_log)[i]))
    /\ [][/\ Len(videos_list') >= Len(videos_list)
          /\ SubSeq(videos_list', 1, Len(videos_list)) = videos_list]_vars

\* the page number a record's link carries
PageOfRecord(record) ==
    record.link[3]

\* the engine stopped because its statistics request closed the gate
StatsCallClosedGate ==
    /\ EngineStarted
    /\ EngineStopped
    /\ ~api_request_allow
    /\ Last(requests_log).endpoint = "videos"

\* C8: when the statistics request for page k closes the gate, the engine
\* returns normally (no exception, no exit) and its result is exactly what had
\* been accumulated from pages 1..k-1: no record of it comes from page k.
C8_StatsSoftStop ==
    StatsCallClosedGate =>
        /\ termination \in {"running", "completed"}
        /\ exit_status \in {-1, 0}
        /\ Len(pages_log) = locals.page
        /\ ~Last(pages_log).zipped
        /\ videos_list = Last(pages_log).before
        /\ \A i \in 1..Len(videos_list) :
              PageOfRecord(videos_list[i]) \in {Digit[j + 1] : j \in 1..(locals.page - 1)}
        /\ out_file.written => out_file.content.videos = videos_list

\* the statistics request of page 2 closed the gate: the records of page 1
\* are the result, the entries of page 2 are not in it
C8_Witness ==
    /\ StatsCallClosedGate
    /\ locals.page = 2
    /\ Len(videos_list) >= 1
    /\ Len(Last(pages_log).entries) >= 1
    /\ pc = "save"

\* the engine stopped because its playlistItems request closed the gate
ListCallClosedGate ==
    /\ EngineStarted
    /\ EngineStopped
    /\ ~api_request_allow
    /\ Last(requests_log).endpoint = "playlistItems"

\* C9: when the playlistItems request for page k gets the closed signal, the
\* engine is done at once: page k is not parsed, no statistics request is made
\* for it, the result is what pages 1..k-1 gave, and the run goes on to write
\* the output document with that result and ends with exit status 0.
C9_ListSoftStop ==
    ListCallClosedGate =>
        /\ ListRequests = locals.page
        /\ StatsRequests = locals.page - 1
        /\ Len(pages_log) = locals.page - 1
        /\ \A j \in 1..Len(pages_log) : pages_log[j].zipped
        /\ IF pages_log = <<>>
           THEN videos_list = <<>>
           ELSE /\ Len(videos_list) >= Len(Last(pages_log).before)
                /\ SubSeq(videos_list, 1, Len(Last(pages_log).before))
                      = Last(pages_log).before
        /\ \A i \in 1..Len(videos_list) :
              PageOfRecord(videos_list[i]) \in {Digit[j + 1] : j \in 1..(locals.page - 1)}
        /\ pc = "save" => ENABLED Save
        /\ pc = "end" =>
              /\ termination = "completed"
              /\ exit_status = 0
              /\ out_file.written
              /\ out_file.content.videos = videos_list

\* the playlistItems request of page 2 closed the gate and the document with
\* the records of page 1 has been written
C9_Witness ==
    /\ ListCallClosedGate
    /\ locals.page = 2
    /\ Len(videos_list) >= 1
    /\ pc = "end"
    /\ out_file.written

\* C10 as the spec states it: when the channel lookup succeeds the playlist id
\* is the uploads id of items[0], and when its items array is empty the run
\* ends through the fatal-error path (sys.exit with a message), not through an
\* index fault.
C10_ResolverFatalPath ==
    [][(pc = "resolver" /\ gpc = "ret" /\ g_ret.kind = "Response") =>
          IF g_ret.body.items = <<>>
          THEN /\ pc' = "end"
               /\ termination' = "sys.exit"
               /\ exit_status' > 0
          ELSE /\ locals'.playlist_id
                     = g_ret.body.items[1].contentDetails.relatedPlaylists.uploads
               /\ pc' # "end"]_vars

\* the output name holds one of the characters of line 236
NameForbidden ==
    \E i \in 1..Len(args.out) : args.out[i] \in ForbiddenChars

\* the run is over because upfront validation found an error (lines 247-249)
ValidationStopped ==
    /\ pc = "end"
    /\ termination = "validation_error"
    /\ \/ locals.url_resp # HTTP_OK
       \/ locals.api_resp # HTTP_OK
       \/ NameForbidden

\* the run is over because get_channel_id could not find the channel id
ChannelIdUnresolved ==
    /\ pc = "end"
    /\ Len(requests_log) = 3
    /\ response.kind = "Response"
    /\ response.url = ChannelPageUrl
    /\ response.body = [canonical |-> NoneVal]

\* the run is over because a gated call made with exit_if_not found or left
\* the gate closed
FatalCallFailed ==
    /\ pc = "end"
    /\ exit_if_not
    /\ ~api_request_allow

\* C11 as the spec states it: when the channel id cannot be resolved, when a
\* fail-fast gated call fails, when upfront validation finds the channel or
\* the key invalid, or when the output name holds a forbidden character, the
\* run ends with a non-zero exit status and a message.
C11_FatalExitsNonZero ==
    (ChannelIdUnresolved \/ FatalCallFailed \/ ValidationStopped) =>
        /\ exit_status > 0
        /\ stdout # "" \/ stderr # ""

\* C12 as the spec states it: when the run ends on an output name holding a
\* forbidden character, no request has been handed to the transport.
C12_NameCheckedBeforeNetwork ==
    (pc = "end" /\ NameForbidden) => Len(requests_log) = 0

\* the aggregation loop was left through one of its soft stops (line 118 or
\* line 152) and the run is over
SoftStopped ==
    /\ pc = "end"
    /\ EngineStarted
    /\ ~api_request_allow
    /\ ~exit_if_not

\* C13: the output document is never written in a run whose validation fails
\* (a forbidden character in the output name included), whose channel id
\* cannot be resolved or whose resolver or summary call meets a closed gate;
\* a run whose aggregation loop soft-stops ends with the document written.
C13_WrittenOnlyWithoutFatal ==
    /\ NameForbidden => ~out_file.written
    /\ (ValidationStopped \/ ChannelIdUnresolved \/ FatalCallFailed) => ~out_file.written
    /\ out_file.written => (EngineStarted /\ termination = "completed")
    /\ SoftStopped => (out_file.written /\ termination = "completed")

\* the statistics request of the first page closed the gate and the run ended
\* with the document written, no video in it
C13_Witness ==
    /\ SoftStopped
    /\ Last(requests_log).endpoint = "videos"
    /\ locals.page = 1
    /\ out_file.written
    /\ out_file.content.videos = <<>>

\* the records appended for page j of the log: those after the records that
\* were there when the page arrived, up to those of the next page
RecordsOfPage(j) ==
    SubSeq(videos_list,
           Len(pages_log[j].before) + 1,
           IF j < Len(pages_log) THEN Len(pages_log[j + 1].before) ELSE Len(videos_list))

\* what a record holds of a playlist entry, field by field: the value of the
\* field, or None when the entry lacks it
FieldsOfEntry(entry) ==
    [title |-> GetOrNone(entry.snippet, "title"),
     description |-> GetOrNone(entry.snippet, "description"),
     publish_time |-> IF "publishedAt" \in DOMAIN entry.snippet
                      THEN <<"2021-05-01", " ", "12:00:00">>
                      ELSE NoneVal]

\* the statistics server answered page j with one item per id asked for
StatsInFull(j) ==
    /\ pages_log[j].zipped
    /\ Len(pages_log[j].stats) = Len(pages_log[j].entries)

\* C14 as the spec states it: a page is never aborted because an entry lacks
\* a field, the videoId included; and when its statistics arrive in full,
\* every entry of the page has its record, in which a missing title,
\* description or publishedAt is None and the fields present keep their value.
C14_FieldsIndependentlyOptional ==
    /\ termination # "TypeError"
    /\ \A j \in 1..Len(pages_log) :
          StatsInFull(j) =>
              /\ Len(RecordsOfPage(j)) = Len(pages_log[j].entries)
              /\ \A i \in 1..Len(pages_log[j].entries) :
                    /\ RecordsOfPage(j)[i].title = FieldsOfEntry(pages_log[j].entries[i]).title
                    /\ RecordsOfPage(j)[i].description
                          = FieldsOfEntry(pages_log[j].entries[i]).description
                    /\ RecordsOfPage(j)[i].publish_time
                          = FieldsOfEntry(pages_log[j].entries[i]).publish_time

\* C15: correct_args turns every page size n with n <= 0 or n > 50 into 50
\* and prints the warning; it keeps every n with 1 <= n <= 50 and prints
\* nothing; and it changes nothing else of the arguments.
C15_PageSizeClamp ==
    [][(pc = "correct_args" /\ pc' = "corrected") =>
          /\ (args.maxr <= 0 \/ args.maxr > 50) =>
                /\ args'.maxr = 50
                /\ stdout' = "warning: -maxr argument changed to default: 50"
          /\ (1 <= args.maxr /\ args.maxr <= 50) =>
                /\ args'.maxr = args.maxr
                /\ stdout' = stdout
          /\ args'.url = args.url /\ args'.key = args.key /\ args'.out = args.out]_vars

\* correct_args has replaced a page size by the default and warned
C15_Witness ==
    /\ pc = "corrected"
    /\ args.maxr = 50
    /\ stdout = "warning: -maxr argument changed to default: 50"

\* requests made before the resolver's: the two probes of validate_args and
\* the channel page of get_channel_id
SetupUrls ==
    <<args.url, KeyProbeUrl(args.key), args.url>>

SetupRequests ==
    Len(SetupUrls)

\* the video ids of the playlist entries of a logged page, in page order
IdsOfPage(page) ==
    [i \in 1..Len(page.entries) |-> GetOrNone(page.entries[i].contentDetails, "videoId")]

\* request i of the run is the one the order of the pipeline puts there
RequestInOrder(i) ==
    LET url == requests_log[i]
        n == i - SetupRequests
    IN  CASE n = 1 -> url.endpoint = "channels"
          [] n = 2 -> url.endpoint = "playlistItems" /\ url.pageToken = <<>>
          [] n >= 3 /\ n % 2 = 1 ->
                \* the playlistItems request of page (n - 1) \div 2: every earlier
                \* page has been joined with its statistics
                /\ url.endpoint = "playlistItems"
                /\ Len(pages_log) >= (n - 1) \div 2 - 1
                /\ \A j \in 1..((n - 1) \div 2 - 1) : pages_log[j].zipped
          [] n >= 4 /\ n % 2 = 0 ->
                \* the statistics request of page (n - 2) \div 2: the page has
                \* been received and the request carries its ids
                /\ url.endpoint = "videos"
                /\ Len(pages_log) >= (n - 2) \div 2
                /\ url.id = Join(<<",">>, IdsOfPage(pages_log[(n - 2) \div 2]))
          [] OTHER -> url = SetupUrls[i]

\* C16: a request is handed to the transport only when no other is awaiting
\* its answer; the requests follow the order resolver, summary, then for each
\* page its playlistItems request and its statistics request; and the
\* statistics request of a page is made after the page has been received and
\* carries exactly the video ids of the page's playlist entries, in order.
C16_SequentialRequests ==
    /\ [](\A i \in 1..Len(requests_log) : RequestInOrder(i))
    /\ [][requests_log' # requests_log =>
             /\ tpc # "attempt"
             /\ tpc' = "attempt"
             /\ Len(requests_log') = Len(requests_log) + 1
             /\ SubSeq(requests_log', 1, Len(requests_log)) = requests_log]_vars

\* the statistics request of the second page is in flight, carrying two ids
C16_Witness ==
    /\ Len(requests_log) = SetupRequests + 6
    /\ Last(requests_log).endpoint = "videos"
    /\ Len(pages_log) = 2
    /\ Len(pages_log[2].entries) = 2
    /\ tpc = "attempt"

\* playlistItems requests get_videos_list has made so far
EngineListRequests ==
    (Len(requests_log) - SetupRequests - 1) \div 2

\* the playlistItems request get_videos_list made for its k-th page
ListRequestOfPage(k) ==
    requests_log[SetupRequests + 2 * k + 1]

\* the step of get_videos_list that reaches line 180 with a page in hand
CursorStep ==
    /\ pc = "stats"
    /\ gpc = "ret"
    /\ g_ret.kind = "Response"
    /\ pc' # "end"

RecordZips(record, video, entry) ==
    /\ record.views = GetOrNone(video.statistics, "viewCount")
    /\ record.likes = GetOrNone(video.statistics, "likeCount")
    /\ record.comments_number = GetOrNone(video.statistics, "commentCount")
    /\ record.title = FieldsOfEntry(entry).title
    /\ record.description = FieldsOfEntry(entry).description
    /\ record.publish_time = FieldsOfEntry(entry).publish_time
    /\ record.link = youtube_link \o GetOrNone(entry.contentDetails, "videoId")

\* C18 as the spec states it: for every page joined with its statistics, the
\* records appended for the page are as many as the page's playlist entries,
\* and the i-th of them combines the i-th statistics item with the i-th entry.
C18_PositionalZip ==
    \A j \in 1..Len(pages_log) :
        pages_log[j].zipped =>
            /\ Len(RecordsOfPage(j)) = Len(pages_log[j].entries)
            /\ \A i \in 1..Len(RecordsOfPage(j)) :
                  RecordZips(RecordsOfPage(j)[i], pages_log[j].stats[i],
                             pages_log[j].entries[i])

\* the step in which fetch_channel_data gets its response and returns
SummaryStep ==
    /\ pc = "summary"
    /\ gpc = "ret"
    /\ g_ret.kind = "Response"

\* C19: fetch_channel_data gives None as channel_title when the listing has
\* no items and the channelTitle of the first item otherwise, and the
\* totalResults the listing reports as videos_number; once aggregation has
\* started neither value changes, soft stop or not, and the document written
\* holds both, whatever the number of records collected.
C19_SummaryFetcher ==
    /\ [][SummaryStep =>
             LET response_json == g_ret.body
             IN  IF response_json.items = <<>>
                 THEN /\ locals'.channel_title = NoneVal
                      /\ locals'.videos_number = response_json.pageInfo.totalResults
                 ELSE "channelTitle" \in DOMAIN response_json.items[1].snippet =>
                        /\ locals'.channel_title = response_json.items[1].snippet.channelTitle
                        /\ locals'.videos_number = response_json.pageInfo.totalResults]_vars
    /\ [][EngineStarted =>
             /\ locals'.channel_title = locals.channel_title
             /\ locals'.videos_number = locals.videos_number]_vars
    /\ [](out_file.written =>
             /\ out_file.content.channel_title = locals.channel_title
             /\ out_file.content.videos_number = locals.videos_number)

\* after a soft stop the document has been written with the total the
\* listing reported, which is more than the records collected
C19_Witness ==
    /\ out_file.written
    /\ ~api_request_allow
    /\ out_file.content.channel_title = <<"Channel">>
    /\ out_file.content.videos_number = DeclaredTotal
    /\ Len(out_file.content.videos) < out_file.content.videos_number

\* every page received so far is well-formed: each playlist entry has a
\* videoId and the statistics hold no more items than ids were asked for
WellFormedPages ==
    \A j \in 1..Len(pages_log) :
        /\ \A i \in 1..Len(pages_log[j].entries) :
              "videoId" \in DOMAIN pages_log[j].entries[i].contentDetails
        /\ Len(pages_log[j].stats) <= Len(pages_log[j].entries)

\* C20: once resolver and summary have returned, the engine never leaves
\* through sys.exit; the output document is written at most once; and when
\* the network answers every request, the run gets to write the document
\* unless a page is not well-formed, whether or not the gate closes on the way.
C20_RunWritesDocument ==
    /\ [](EngineStarted => (termination # "sys.exit" /\ ~exit_if_not))
    /\ [][out_file' # out_file => (~out_file.written /\ out_file'.written)]_vars
    /\ (EngineStarted ~> (out_file.written \/ ~WellFormedPages))

\* two well-formed pages were joined with their statistics, the gate stayed
\* open and the document has been written
C20_Witness ==
    /\ out_file.written
    /\ api_request_allow
    /\ WellFormedPages
    /\ Len(pages_log) = 2
    /\ Len(out_file.content.videos) >= 3

====
